---- MODULE Spec2Model ----
(***************************************************************************)
(* compdb: a compiler wrapper (cc/cc.py) that appends one JSON record per  *)
(* compiler invocation to a log file and then execs the real compiler, and *)
(* a database generator (cc/gen_compdb.py) that turns the log into         *)
(* compile_commands.json.                                                  *)
(*                                                                         *)
(* A Python str is modelled as the sequence of its code points (integers), *)
(* so that json.dumps, json.loads, str.endswith, os.path.join, readlines   *)
(* and print act on the text the programs really read and write.  T(...)   *)
(* writes a literal of printable ASCII.  A file holds text; both programs  *)
(* write ASCII only, so a character of a file they wrote is a byte.        *)
(*                                                                         *)
(* Not modelled: float.__repr__ (a float read by json.loads keeps its      *)
(* lexeme, and json.dumps is defined on NaN and the infinities only: no    *)
(* number reaches json.dumps in either program), and the interpreter's     *)
(* recursion limit on deeply nested JSON.                                  *)
(***************************************************************************)
EXTENDS Integers, Sequences, FiniteSets, TLC

(***************************************************************************)
(* Text                                                                    *)
(***************************************************************************)
\* the printable ASCII characters, code points 32..126 in order (the grave
\* accent, 96, cannot be written in a TLA+ string and has a name instead)
Printable ==
    <<" ", "!", "\"", "#", "$", "%", "&", "'", "(", ")", "*", "+", ",", "-", ".", "/",
      "0", "1", "2", "3", "4", "5", "6", "7", "8", "9", ":", ";", "<", "=", ">", "?",
      "@", "A", "B", "C", "D", "E", "F", "G", "H", "I", "J", "K", "L", "M", "N", "O",
      "P", "Q", "R", "S", "T", "U", "V", "W", "X", "Y", "Z", "[", "\\", "]", "^", "_",
      "<grave>", "a", "b", "c", "d", "e", "f", "g", "h", "i", "j", "k", "l", "m", "n", "o",
      "p", "q", "r", "s", "t", "u", "v", "w", "x", "y", "z", "{", "|", "}", "~">>

\* ord(c) of a printable ASCII character
ord(c) == 31 + CHOOSE i \in 1..Len(Printable) : Printable[i] = c

\* the str whose characters are cs
T(cs) == [i \in 1..Len(cs) |-> ord(cs[i])]

\* "\n"
NL == <<10>>

(***************************************************************************)
(* Python values, as json.loads produces them and json.dumps consumes them *)
(***************************************************************************)
Str(s) == [t |-> "str", v |-> s]
List(xs) == [t |-> "list", v |-> xs]
\* a dict is the sequence of its <<key, value>> items in insertion order
Dict(items) == [t |-> "dict", v |-> items]
None == [t |-> "None", v |-> <<>>]
Bool(b) == [t |-> "bool", v |-> b]
\* an int, by its decimal text: int("-0") is 0, every other JSON integer is
\* printed as it was read
PyInt(lexeme) == [t |-> "int", v |-> IF lexeme = T(<<"-", "0">>) THEN T(<<"0">>) ELSE lexeme]
\* a float, by the text json.loads read it from
Float(lexeme) == [t |-> "float", v |-> lexeme]

RECURSIVE DictSet(_, _, _)
\* d[k] = x on the items of a dict: an existing key keeps its place
DictSet(items, k, x) ==
    IF items = <<>> THEN << <<k, x>> >>
    ELSE IF Head(items)[1] = k THEN << <<k, x>> >> \o Tail(items)
    ELSE <<Head(items)>> \o DictSet(Tail(items), k, x)

HasKey(d, k) == \E i \in 1..Len(d.v) : d.v[i][1] = k
GetItem(d, k) == d.v[CHOOSE i \in 1..Len(d.v) : d.v[i][1] = k][2]

(***************************************************************************)
(* json.dumps (default options: ensure_ascii, separators ", " and ": ")    *)
(***************************************************************************)
\* one hexadecimal digit, lower case: 0-9 are 48..57, a-f are 97..102
HexDigit(d) == IF d < 10 THEN 48 + d ELSE 87 + d

\* '\\u{0:04x}'.format(n)
U4(n) ==
    <<92, 117, HexDigit(n \div 4096), HexDigit((n \div 256) % 16),
      HexDigit((n \div 16) % 16), HexDigit(n % 16)>>

\* ESCAPE_ASCII: a quote, a backslash, or anything outside " ".."~"
Escapable(c) == c = 34 \/ c = 92 \/ c < 32 \/ c > 126

\* the replacement of one character ESCAPE_ASCII matches: ESCAPE_DCT, else
\* \uXXXX, else (above the basic plane) the \uXXXX of the two surrogates
EscapeChar(c) ==
    IF c = 34 THEN <<92, 34>>                \* \"
    ELSE IF c = 92 THEN <<92, 92>>           \* \\
    ELSE IF c = 10 THEN <<92, 110>>          \* \n
    ELSE IF c = 13 THEN <<92, 114>>          \* \r
    ELSE IF c = 9 THEN <<92, 116>>           \* \t
    ELSE IF c = 12 THEN <<92, 102>>          \* \f
    ELSE IF c = 8 THEN <<92, 98>>            \* \b
    ELSE IF ~Escapable(c) THEN <<c>>
    ELSE IF c < 65536 THEN U4(c)
    ELSE U4(55296 + (((c - 65536) \div 1024) % 1024)) \o U4(56320 + ((c - 65536) % 1024))

RECURSIVE EscapeChars(_)
\* ESCAPE_ASCII.sub(replace, s): every character that matches is replaced,
\* the others stay (computed by halves)
EscapeChars(s) ==
    IF \A k \in 1..Len(s) : ~Escapable(s[k]) THEN s
    ELSE IF Len(s) = 1 THEN EscapeChar(s[1])
    ELSE EscapeChars(SubSeq(s, 1, Len(s) \div 2))
         \o EscapeChars(SubSeq(s, Len(s) \div 2 + 1, Len(s)))

encode_basestring_ascii(s) == <<34>> \o EscapeChars(s) \o <<34>>

S_null == T(<<"n", "u", "l", "l">>)
S_true == T(<<"t", "r", "u", "e">>)
S_false == T(<<"f", "a", "l", "s", "e">>)
S_NaN == T(<<"N", "a", "N">>)
S_Infinity == T(<<"I", "n", "f", "i", "n", "i", "t", "y">>)
S_NegInfinity == T(<<"-", "I", "n", "f", "i", "n", "i", "t", "y">>)
ItemSep == T(<<",", " ">>)
KeySep == T(<<":", " ">>)

RECURSIVE dumps(_)
RECURSIVE DumpsElements(_)
RECURSIVE DumpsItems(_)
DumpsElements(xs) ==
    IF xs = <<>> THEN <<>>
    ELSE IF Len(xs) = 1 THEN dumps(xs[1])
    ELSE dumps(xs[1]) \o ItemSep \o DumpsElements(Tail(xs))
DumpsItems(items) ==
    IF items = <<>> THEN <<>>
    ELSE LET one == encode_basestring_ascii(items[1][1]) \o KeySep
                    \o dumps(items[1][2])
         IN IF Len(items) = 1 THEN one
            ELSE one \o ItemSep \o DumpsItems(Tail(items))
dumps(x) ==
    CASE x.t = "str" -> encode_basestring_ascii(x.v)
      [] x.t = "list" -> <<91>> \o DumpsElements(x.v) \o <<93>>      \* [ ]
      [] x.t = "dict" -> <<123>> \o DumpsItems(x.v) \o <<125>>       \* { }
      [] x.t = "None" -> S_null
      [] x.t = "bool" -> (IF x.v THEN S_true ELSE S_false)
      [] x.t = "int" -> x.v
      [] x.t = "float" /\ x.v \in {S_NaN, S_Infinity, S_NegInfinity} -> x.v

(***************************************************************************)
(* json.loads: the decoder of the Python standard library                  *)
(***************************************************************************)
\* WHITESPACE of json.decoder: space, \t, \n, \r
WHITESPACE == {32, 9, 10, 13}
\* the characters a strict decoder refuses raw inside a string
ControlChars == 0..31
Digits == 48..57

\* the least element of a non-empty set of indices
First(ks) == CHOOSE k \in ks : \A j \in ks : k <= j

\* the index of the first character at or after i that is not in set
\* (Len(s) + 1 when the text ends before)
SkipWhile(s, i, set) ==
    IF i > Len(s) \/ s[i] \notin set THEN i
    ELSE IF i + 1 > Len(s) \/ s[i + 1] \notin set THEN i + 1
    ELSE IF \A k \in i..Len(s) : s[k] \in set THEN Len(s) + 1
    ELSE First({k \in i..Len(s) : s[k] \notin set})

SkipWs(s, i) == SkipWhile(s, i, WHITESPACE)

SkipDigits(s, i) == SkipWhile(s, i, Digits)

\* a scan result: ok or the exception raised, the value, the index after it
ScanError(e) == [ok |-> FALSE, err |-> e, val |-> None, pos |-> 0]
ScanFail == ScanError("JSONDecodeError")
ScanOk(x, p) == [ok |-> TRUE, err |-> "ok", val |-> x, pos |-> p]

StartsAt(s, i, w) ==
    /\ i + Len(w) - 1 <= Len(s)
    /\ \A k \in 1..Len(w) : s[i + k - 1] = w[k]

\* BACKSLASH of json.decoder: the character an escape stands for
BACKSLASH(c) ==
    IF c = 110 THEN 10            \* n
    ELSE IF c = 116 THEN 9        \* t
    ELSE IF c = 114 THEN 13       \* r
    ELSE IF c = 102 THEN 12       \* f
    ELSE IF c = 98 THEN 8         \* b
    ELSE c                        \* " \ /

\* the characters that may follow a backslash: " \ / b f n r t
Escapes == {34, 92, 47, 98, 102, 110, 114, 116}

\* the value of a hexadecimal digit, -1 for any other character
HexValue(c) ==
    IF c \in 48..57 THEN c - 48
    ELSE IF c \in 97..102 THEN c - 87
    ELSE IF c \in 65..70 THEN c - 55
    ELSE -1

\* the number the four characters at j..j+3 spell in hexadecimal, -1: none
Hex4(s, j) ==
    IF j + 3 > Len(s) \/ \E k \in j..(j + 3) : HexValue(s[k]) < 0 THEN -1
    ELSE 4096 * HexValue(s[j]) + 256 * HexValue(s[j + 1])
         + 16 * HexValue(s[j + 2]) + HexValue(s[j + 3])

\* the low surrogate escaped at j (\uXXXX with XXXX in DC00..DFFF), 0: none
LowSurrogateAt(s, j) ==
    IF j + 1 <= Len(s) /\ s[j] = 92 /\ s[j + 1] = 117
       /\ Hex4(s, j + 2) \in 56320..57343
    THEN Hex4(s, j + 2) ELSE 0

\* a quote, a backslash or a control character ends a chunk of plain text
ChunkEnds == {34, 92} \cup ControlChars

\* the index of the first such character at or after i, 0 when there is none
\* (most strings are short: the next 32 characters are looked at first)
ChunkEnd(s, i) ==
    IF \E k \in i..(i + 31) : k <= Len(s) /\ s[k] \in ChunkEnds
        THEN CHOOSE k \in i..(i + 31) :
                 /\ k <= Len(s) /\ s[k] \in ChunkEnds
                 /\ \A j \in i..(k - 1) : s[j] \notin ChunkEnds
    ELSE IF \E k \in (i + 32)..Len(s) : s[k] \in ChunkEnds
        THEN First({k \in (i + 32)..Len(s) : s[k] \in ChunkEnds})
    ELSE 0

RECURSIVE scanstring(_, _, _)
RECURSIVE StringFrom(_, _, _, _)

\* \uXXXX at i (the backslash), its value uni, a low surrogate after it low
UEscape(s, i, acc, uni, low) ==
    IF uni < 0 THEN ScanFail
    ELSE IF uni \in 55296..56319 /\ low # 0
        THEN scanstring(s, i + 12,
                 Append(acc, 65536 + (uni - 55296) * 1024 + (low - 56320)))
    ELSE scanstring(s, i + 6, Append(acc, uni))

\* the string goes on at i, k is where its plain text ends
StringFrom(s, i, acc, k) ==
    IF k = 0 THEN ScanFail                                \* unterminated
    ELSE IF s[k] = 34 THEN ScanOk(Str(acc \o SubSeq(s, i, k - 1)), k + 1)
    ELSE IF s[k] # 92 THEN ScanFail                       \* control character
    ELSE IF k + 1 > Len(s) THEN ScanFail
    ELSE IF s[k + 1] = 117                                \* u
        THEN UEscape(s, k, acc \o SubSeq(s, i, k - 1), Hex4(s, k + 2),
                     LowSurrogateAt(s, k + 6))
    ELSE IF s[k + 1] \in Escapes
        THEN scanstring(s, k + 2,
                 Append(acc \o SubSeq(s, i, k - 1), BACKSLASH(s[k + 1])))
    ELSE ScanFail

\* s[i] is the character after the opening quote; acc is the text so far
scanstring(s, i, acc) == StringFrom(s, i, acc, ChunkEnd(s, i))

\* NUMBER_RE: (-?(?:0|[1-9]\d*))(\.\d+)?([eE][-+]?\d+)?
\* the integer part starts at d; the result is the index after it (d: none)
IntEnd(s, d) == IF d <= Len(s) /\ s[d] = 48 THEN d + 1 ELSE SkipDigits(s, d)
\* e is the index after the integer part, f the index after the digits at e + 1
FracEnd(s, e, f) == IF e <= Len(s) /\ s[e] = 46 /\ f > e + 1 THEN f ELSE e
\* the index where the digits of an exponent at e would start
ExpDigits(s, e) ==
    IF e + 1 <= Len(s) /\ s[e + 1] \in {45, 43} THEN e + 2 ELSE e + 1
\* e is the index after the fraction, h the index after the digits at d
ExpEnd(s, e, d, h) == IF e <= Len(s) /\ s[e] \in {101, 69} /\ h > d THEN h ELSE e
NumberEnd(s, e) == ExpEnd(s, e, ExpDigits(s, e), SkipDigits(s, ExpDigits(s, e)))
\* the index after the number that starts at i, 0 when there is none
MatchNumber(s, i, d, e) ==
    IF e = d THEN 0 ELSE NumberEnd(s, FracEnd(s, e, SkipDigits(s, e + 1)))
NumberAt(s, i, d) == MatchNumber(s, i, d, IntEnd(s, d))

\* the constants json.loads accepts where no number matches
ScanConstant(s, i) ==
    IF StartsAt(s, i, S_NaN) THEN ScanOk(Float(S_NaN), i + 3)
    ELSE IF StartsAt(s, i, S_Infinity) THEN ScanOk(Float(S_Infinity), i + 8)
    ELSE IF StartsAt(s, i, S_NegInfinity) THEN ScanOk(Float(S_NegInfinity), i + 9)
    ELSE ScanFail

\* the number s[i..end-1], whose integer part starts at d: float(...) when it
\* has a fraction or an exponent, else int(...), which refuses more than
\* 4300 digits (sys.int_info.default_max_str_digits) with ValueError
NumberValue(s, i, d, end) ==
    IF \E k \in i..(end - 1) : s[k] \in {46, 101, 69}
        THEN ScanOk(Float(SubSeq(s, i, end - 1)), end)
    ELSE IF end - d > 4300 THEN ScanError("ValueError")
    ELSE ScanOk(PyInt(SubSeq(s, i, end - 1)), end)

NumberOrConstant(s, i, d, end) ==
    IF end = 0 THEN ScanConstant(s, i) ELSE NumberValue(s, i, d, end)

NumberFrom(s, i, d) == NumberOrConstant(s, i, d, NumberAt(s, i, d))

ScanNumber(s, i) == NumberFrom(s, i, IF s[i] = 45 THEN i + 1 ELSE i)

RECURSIVE scan_once(_, _)
RECURSIVE JSONObject(_, _, _)
RECURSIVE JSONArray(_, _, _)

\* after the value of a pair, at e: "}" ends the object, "," starts a pair
ObjectNext(s, items, e) ==
    IF e > Len(s) THEN ScanFail
    ELSE IF s[e] = 125 THEN ScanOk(Dict(items), e + 1)
    ELSE IF s[e] = 44 THEN JSONObject(s, SkipWs(s, e + 1), items)
    ELSE ScanFail

ObjectValue(s, items, key, x) ==
    IF ~x.ok THEN x
    ELSE ObjectNext(s, DictSet(items, key, x.val), SkipWs(s, x.pos))

ObjectColon(s, items, key, c) ==
    IF c > Len(s) \/ s[c] # 58 THEN ScanFail
    ELSE ObjectValue(s, items, key, scan_once(s, SkipWs(s, c + 1)))

ObjectKey(s, items, k) ==
    IF ~k.ok THEN k ELSE ObjectColon(s, items, k.val.v, SkipWs(s, k.pos))

\* s[i] is where the next key must start (whitespace already skipped)
JSONObject(s, i, items) ==
    IF i > Len(s) \/ s[i] # 34 THEN ScanFail
    ELSE ObjectKey(s, items, scanstring(s, i + 1, <<>>))

\* after an element, at e: "]" ends the array, "," starts an element
ArrayNext(s, xs, e) ==
    IF e > Len(s) THEN ScanFail
    ELSE IF s[e] = 93 THEN ScanOk(List(xs), e + 1)
    ELSE IF s[e] = 44 THEN JSONArray(s, SkipWs(s, e + 1), xs)
    ELSE ScanFail

ArrayElement(s, xs, x) ==
    IF ~x.ok THEN x ELSE ArrayNext(s, Append(xs, x.val), SkipWs(s, x.pos))

\* s[i] is where the next element must start (whitespace already skipped)
JSONArray(s, i, xs) == ArrayElement(s, xs, scan_once(s, i))

ObjectFrom(s, j) ==
    IF j <= Len(s) /\ s[j] = 125 THEN ScanOk(Dict(<<>>), j + 1)
    ELSE JSONObject(s, j, <<>>)

ArrayFrom(s, j) ==
    IF j <= Len(s) /\ s[j] = 93 THEN ScanOk(List(<<>>), j + 1)
    ELSE JSONArray(s, j, <<>>)

scan_once(s, i) ==
    IF i > Len(s) THEN ScanFail
    ELSE IF s[i] = 34 THEN scanstring(s, i + 1, <<>>)
    ELSE IF s[i] = 123 THEN ObjectFrom(s, SkipWs(s, i + 1))
    ELSE IF s[i] = 91 THEN ArrayFrom(s, SkipWs(s, i + 1))
    ELSE IF StartsAt(s, i, S_null) THEN ScanOk(None, i + 4)
    ELSE IF StartsAt(s, i, S_true) THEN ScanOk(Bool(TRUE), i + 4)
    ELSE IF StartsAt(s, i, S_false) THEN ScanOk(Bool(FALSE), i + 5)
    ELSE ScanNumber(s, i)

\* nothing but whitespace may follow the value
Decoded(s, x) ==
    IF ~x.ok THEN x
    ELSE IF SkipWs(s, x.pos) = Len(s) + 1 THEN x
    ELSE ScanFail

\* JSONDecoder.decode: whitespace around one value, nothing else.
\* ok = FALSE: err is the exception (json.JSONDecodeError, ValueError).
loads(s) == Decoded(s, scan_once(s, SkipWs(s, 1)))

(***************************************************************************)
(* str.endswith, os.path.join, readlines, and the layers of open()         *)
(***************************************************************************)
endswith(a, suffix) ==
    /\ Len(a) >= Len(suffix)
    /\ SubSeq(a, Len(a) - Len(suffix) + 1, Len(a)) = suffix

\* posixpath.join(wd, a); "/" is 47
join(wd, a) ==
    IF a # <<>> /\ a[1] = 47 THEN a
    ELSE IF wd = <<>> \/ wd[Len(wd)] = 47 THEN wd \o a
    ELSE wd \o <<47>> \o a

\* the index of the first line terminator (\n or \r) at or after i, 0: none
LineEnd(data, i) ==
    LET ends == {k \in i..Len(data) : data[k] \in {10, 13}}
    IN IF ends = {} THEN 0 ELSE CHOOSE k \in ends : \A j \in ends : k <= j

RECURSIVE SplitLines(_, _)
\* readlines() of a text-mode file: every line keeps its terminator, "\r" and
\* "\r\n" are read as "\n", a last line without terminator is kept as it is
SplitLines(data, i) ==
    IF i > Len(data) THEN <<>>
    ELSE LET k == LineEnd(data, i)
             crlf == data[k] = 13 /\ k < Len(data) /\ data[k + 1] = 10
         IN IF k = 0 THEN <<SubSeq(data, i, Len(data))>>
            ELSE <<SubSeq(data, i, k - 1) \o NL>>
                 \o SplitLines(data, IF crlf THEN k + 2 ELSE k + 1)

readlines(data) == SplitLines(data, 1)

\* open() in text mode stacks a text layer (TextIOWrapper) on a binary layer
\* (BufferedWriter) on the file.  The text layer collects what is written in
\* a pending buffer and hands it down once it holds ChunkSize bytes
\* (TextIOWrapper._CHUNK_SIZE); the binary layer keeps what fits its buffer
\* of BufferSize bytes (st_blksize of the file: 4096 on ext4, tmpfs and
\* overlayfs) and passes on what does not.  Each piece the binary layer
\* passes on is one write(2).
ChunkSize == 8192
BufferSize == 4096

\* TextIOWrapper.write(text): the chunks handed down, the new pending buffer
TextWrite(pending, text) ==
    LET early == pending # <<>> /\ Len(pending) + Len(text) > ChunkSize
        kept == IF early THEN text ELSE pending \o text
        first == IF early THEN <<pending>> ELSE <<>>
    IN IF Len(kept) >= ChunkSize
       THEN [flushed |-> Append(first, kept), pending |-> <<>>]
       ELSE [flushed |-> first, pending |-> kept]

\* BufferedWriter.flush(): what is buffered goes to the file in one write
BufferedFlush(buf) == IF buf = <<>> THEN <<>> ELSE <<buf>>

\* BufferedWriter.write(chunk): the writes issued, and the new buffer
BufferedWrite(buf, chunk) ==
    IF Len(buf) + Len(chunk) <= BufferSize
        THEN [written |-> <<>>, buf |-> buf \o chunk]
    ELSE IF Len(chunk) > BufferSize
        THEN [written |-> Append(BufferedFlush(buf), chunk), buf |-> <<>>]
    ELSE [written |-> BufferedFlush(buf), buf |-> chunk]

RECURSIVE BufferedWrites(_, _, _)
\* the chunks handed down, one BufferedWriter.write each
BufferedWrites(written, buf, chunks) ==
    IF chunks = <<>> THEN [written |-> written, buf |-> buf]
    ELSE BufferedWrites(written \o BufferedWrite(buf, Head(chunks)).written,
                        BufferedWrite(buf, Head(chunks)).buf, Tail(chunks))

\* r is what the text layer did, b what the binary layer did with it
FileState(r, b) == [written |-> b.written, pending |-> r.pending, buf |-> b.buf]
FileHandDown(buf, r) == FileState(r, BufferedWrites(<<>>, buf, r.flushed))

\* f.write(text) on a file with the buffers pending and buf: the writes that
\* reach the file, and the buffers afterwards
FileWrite(pending, buf, text) == FileHandDown(buf, TextWrite(pending, text))

\* f.close(): the text layer hands down what is pending, the binary layer
\* writes what it holds
FileCloseFlush(b) == b.written \o BufferedFlush(b.buf)
FileClose(pending, buf) ==
    FileCloseFlush(BufferedWrites(<<>>, buf, BufferedFlush(pending)))

\* a file: whether it exists, and its content
Missing == [exists |-> FALSE, data |-> <<>>]
File(data) == [exists |-> TRUE, data |-> data]

RECURSIVE Concat(_)
Concat(chunks) == IF chunks = <<>> THEN <<>> ELSE Head(chunks) \o Concat(Tail(chunks))

\* write(2) on a descriptor opened with O_APPEND: the bytes land at the end
AppendTo(f, chunks) == File(f.data \o Concat(chunks))

(***************************************************************************)
(* Names and texts of the two programs                                     *)
(***************************************************************************)
\* cc.py:9, the default log file; gen_compdb.py:8, the database
DefaultLog == "cc_hook.txt"
dst == "compile_commands.json"
OtherLog == "build.log"
Paths == {DefaultLog, OtherLog, dst}
Unset == "<unset>"

\* cc.py:22 and gen_compdb.py:13
cc == T(<<"/", "u", "s", "r", "/", "b", "i", "n", "/", "g", "c", "c">>)

K_wd == T(<<"w", "d">>)
K_args == T(<<"a", "r", "g", "s">>)
K_directory == T(<<"d", "i", "r", "e", "c", "t", "o", "r", "y">>)
K_arguments == T(<<"a", "r", "g", "u", "m", "e", "n", "t", "s">>)
K_file == T(<<"f", "i", "l", "e">>)
WarningNoSrc ==
    T(<<"w", "a", "r", "n", "i", "n", "g", " ", "n", "o", " ", "s", "r", "c", " ">>)
Ext_c == T(<<".", "c">>)
Ext_cc == T(<<".", "c", "c">>)
Ext_cpp == T(<<".", "c", "p", "p">>)

StrList(xs) == List([i \in 1..Len(xs) |-> Str(xs[i])])

\* cc.py:16-19, the record of one invocation and its text
Record(wd, args) == Dict(<< <<K_wd, Str(wd)>>, <<K_args, StrList(args)>> >>)
RecordText(wd, args) == dumps(Record(wd, args))
LogLine(wd, args) == RecordText(wd, args) \o NL

(***************************************************************************)
(* Inputs                                                                  *)
(***************************************************************************)
NumProcs == 2
MaxLogPieces == 2
Procs == 1..NumProcs

WD_w == T(<<"/", "w">>)
WD_root == T(<<"/">>)
A_c == T(<<"a", ".", "c">>)
A_cc == T(<<"b", ".", "c", "c">>)
A_cpp == T(<<"m", ".", "c", "p", "p">>)
A_bak == T(<<"m", ".", "c", "p", "p", ".", "b", "a", "k">>)
A_cxx == T(<<"m", ".", "c", "x", "x">>)
A_C == T(<<"m", ".", "C">>)
A_abs == T(<<"/", "x", "/", "a", ".", "c">>)
\* q " \ newline, e-acute (U+00E9), escape (U+001B), backspace, delete
\* (U+007F), a character above the basic plane (U+1F600), .c
A_odd == T(<<"q", "\"", "\\">>) \o <<10, 233, 27, 8, 127, 128512>> \o Ext_c
A_version == T(<<"-", "-", "v", "e", "r", "s", "i", "o", "n">>)
A_dash_c == T(<<"-", "c">>)
A_dash_o == T(<<"-", "o">>)
A_obj == T(<<"m", ".", "o">>)

\* a file name of n characters
LongName(n) == [i \in 1..n |-> 97] \o Ext_c
\* the source file whose record in /w is exactly ChunkSize characters, and
\* the one whose record is one character shorter
A_fill == LongName(ChunkSize - Len(RecordText(WD_w, <<Ext_c>>)))
A_almost == Tail(A_fill)

\* the invocations a Wrapper process is started with: <<wd, args>>
ShortInvocations ==
    { <<WD_w, <<>> >>,
      <<WD_w, <<A_odd>> >> }
LongInvocations ==
    { <<WD_w, <<A_almost>> >>,
      <<WD_w, <<A_fill>> >> }
\* the build has one file with a long name, and the first process compiles it
Invocations(p) == IF p = 1 THEN ShortInvocations \cup LongInvocations ELSE ShortInvocations

\* the records of a log the Database Generator is given: <<wd, args>>
LoggedInvocations ==
    { <<WD_w, <<>> >>,
      <<WD_w, <<A_odd>> >>,
      <<WD_root, <<A_c, A_cc>> >>,
      <<WD_w, <<A_dash_c, A_cpp, A_dash_o, A_obj>> >>,
      <<WD_w, <<A_version>> >>,
      <<WD_w, <<A_bak>> >>,
      <<WD_w, <<A_cxx, A_C>> >>,
      <<WD_w, <<A_abs, A_dash_c>> >> }

\* text in a log that no Wrapper wrote: an empty line, a list, records that
\* lack a key or hold a number or null, a record with a raw control character
\* in a string, a record spelled with other whitespace and escapes
\* ( {"wd" :"\/","args":[ "a.c"]} ), a last line without newline
RawPieces ==
    { NL,
      T(<<"[", "]">>) \o NL,
      dumps(Dict(<< <<K_wd, Str(WD_w)>> >>)) \o NL,
      dumps(Dict(<< <<K_args, StrList(<<A_c>>)>> >>)) \o NL,
      dumps(Dict(<< <<K_wd, PyInt(T(<<"1">>))>>, <<K_args, StrList(<<A_c>>)>> >>)) \o NL,
      dumps(Dict(<< <<K_wd, None>>, <<K_args, List(<<PyInt(T(<<"1">>))>>)>> >>)) \o NL,
      T(<<"{", "\"", "w", "d", "\"", ":", " ", "\"">>) \o <<27>>
        \o T(<<"\"", ",", " ", "\"", "a", "r", "g", "s", "\"", ":", " ", "[", "]", "}">>)
        \o NL,
      T(<<" ", "{", "\"", "w", "d", "\"", " ", ":", "\"", "\\", "/", "\"", ",", "\"", "a",
          "r", "g", "s", "\"", ":", "[", " ", "\"", "\\", "u", "0", "0", "6", "1", ".",
          "c", "\"", "]", "}", " ">>) \o NL,
      RecordText(WD_w, <<A_version>>) }

LogPieces == {LogLine(r[1], r[2]) : r \in LoggedInvocations} \cup RawPieces

\* the contents of a log file before the Database Generator runs
Logs == UNION {{Concat(q) : q \in [1..n -> LogPieces]} : n \in 0..MaxLogPieces}

\* compile_commands.json before a run: absent, left by an earlier run, or the
\* file CC_HOOK_COMPDB_LOG_FILE named
OldDatabases ==
    { Missing,
      File(T(<<"[", "]">>)),
      File(LogLine(WD_w, <<A_c>>) \o LogLine(WD_w, <<A_version>>)) }

(***************************************************************************)
(* State                                                                   *)
(***************************************************************************)
VARIABLES
    fs,        \* the files: path -> [exists, data]
    log_env,   \* CC_HOOK_COMPDB_LOG_FILE, or Unset
    wpc,       \* Wrapper process -> its place in cc.py
    w,         \* Wrapper process -> [wd, args, log_file, pending, buf, open, wrote]
    gpc,       \* the Database Generator's place in gen_compdb.py
    g,         \* its variables: [log_file, read, ls, i, db, pending, buf, err]
    stdout,    \* what the Database Generator printed in this run
    before,    \* compile_commands.json when this run started
    runs       \* the completed runs, latest last (at most two): [log, out]

vars == <<fs, log_env, wpc, w, gpc, g, stdout, before, runs>>
wvars == <<log_env, wpc, w>>
gvars == <<gpc, g, stdout, before, runs>>

W0 == [wd |-> <<>>, args |-> <<>>, log_file |-> DefaultLog, pending |-> <<>>,
       buf |-> <<>>, open |-> FALSE, wrote |-> <<>>]
G0 == [log_file |-> DefaultLog, read |-> <<>>, ls |-> <<>>, i |-> 1, db |-> <<>>,
       pending |-> <<>>, buf |-> <<>>, err |-> "ok"]

\* a build directory in which the Wrapper is about to be used: a first build
\* with the default log, or a later one with the log named by the environment
Init ==
    /\ \/ log_env = Unset /\ fs = [p \in Paths |-> Missing]
       \/ log_env = OtherLog
          /\ fs = [p \in Paths |->
                     IF p = OtherLog THEN File(LogLine(WD_w, <<A_c>>)) ELSE Missing]
    /\ wpc = [p \in Procs |-> "start"]
    /\ w = [p \in Procs |-> W0]
    /\ gpc = "start" /\ g = G0 /\ stdout = <<>> /\ before = Missing /\ runs = <<>>

\* a build directory after the build, the log written
GenInit ==
    /\ log_env = Unset
    /\ \E l \in Logs, old \in OldDatabases :
         fs = [p \in Paths |->
                 IF p = DefaultLog THEN File(l) ELSE IF p = dst THEN old ELSE Missing]
    /\ wpc = [p \in Procs |-> "start"]
    /\ w = [p \in Procs |-> W0]
    /\ gpc = "start" /\ g = G0 /\ stdout = <<>> /\ before = Missing /\ runs = <<>>

(***************************************************************************)
(* The Wrapper, cc/cc.py                                                   *)
(***************************************************************************)
\* cc.py:6-14: the log file's name, the arguments, the working directory
WrapperStart(p, wd, args) ==
    /\ wpc[p] = "start"
    /\ w' = [w EXCEPT ![p] = [W0 EXCEPT !.wd = wd, !.args = args,
                 !.log_file = IF log_env = Unset THEN DefaultLog ELSE log_env]]
    /\ wpc' = [wpc EXCEPT ![p] = "open"]
    /\ UNCHANGED <<fs, log_env, gvars>>

\* cc.py:15: open(log_file, 'a') creates the file when it is missing
WrapperOpen(p) ==
    /\ wpc[p] = "open"
    /\ fs' = [fs EXCEPT ![w[p].log_file] = File(@.data)]
    /\ w' = [w EXCEPT ![p].open = TRUE]
    /\ wpc' = [wpc EXCEPT ![p] = "write_record"]
    /\ UNCHANGED <<log_env, gvars>>

WrapperOpenSwallowed(p) ==
    /\ wpc[p] = "open"
    /\ wpc' = [wpc EXCEPT ![p] = "exec"]
    /\ UNCHANGED <<fs, log_env, w, gvars>>

\* cc.py:15: open() raises OSError (no permission, no such directory)
WrapperOpenFails(p) ==
    /\ wpc[p] = "open"
    /\ wpc' = [wpc EXCEPT ![p] = "OSError"]
    /\ UNCHANGED <<fs, log_env, w, gvars>>

\* the offsets at which the writes land in a file that holds at bytes, in the
\* order written
Marks(at, written) ==
    [k \in 1..Len(written) |->
        [at |-> at + Len(Concat(SubSeq(written, 1, k - 1))), n |-> Len(written[k])]]

\* process p's writes reach its log file, and p goes on at next; wrote
\* remembers where each write landed.  (No call of cc.py issues more than
\* one write.)
WrapperWrites(p, r, next) ==
    /\ fs' = [fs EXCEPT ![w[p].log_file] = AppendTo(@, r.written)]
    /\ w' = [w EXCEPT ![p].pending = r.pending, ![p].buf = r.buf,
                      ![p].open = (next # "exec"),
                      ![p].wrote = @ \o Marks(Len(fs[w[p].log_file].data), r.written)]
    /\ wpc' = [wpc EXCEPT ![p] = next]
    /\ UNCHANGED <<log_env, gvars>>

\* f.write(text) by process p
WrapperWrite(p, text, next) ==
    WrapperWrites(p, FileWrite(w[p].pending, w[p].buf, text), next)

\* cc.py:16-19: f.write(json.dumps({'wd': wd, 'args': args}))
WrapperWriteRecord(p) ==
    /\ wpc[p] = "write_record"
    /\ WrapperWrite(p, RecordText(w[p].wd, w[p].args), "write_newline")

\* cc.py:20: f.write('\n')
WrapperWriteNewline(p) ==
    /\ wpc[p] = "write_newline"
    /\ WrapperWrite(p, NL, "close")

WrapperCloseNoFlush(p) ==
    /\ wpc[p] = "close"
    /\ w' = [w EXCEPT ![p].open = FALSE]
    /\ wpc' = [wpc EXCEPT ![p] = "exec"]
    /\ UNCHANGED <<fs, log_env, gvars>>

\* cc.py:15-20: leaving the with block flushes both buffers and closes f
WrapperClose(p) ==
    /\ wpc[p] = "close"
    /\ WrapperWrites(p, [written |-> FileClose(w[p].pending, w[p].buf),
                         pending |-> <<>>, buf |-> <<>>], "exec")

\* cc.py:22-23: os.execve replaces the process by /usr/bin/gcc
WrapperExec(p) ==
    /\ wpc[p] = "exec"
    /\ wpc' = [wpc EXCEPT ![p] = "compiler"]
    /\ UNCHANGED <<fs, log_env, w, gvars>>

\* cc.py:23: os.execve raises FileNotFoundError, /usr/bin/gcc does not exist
WrapperExecFails(p) ==
    /\ wpc[p] = "exec"
    /\ wpc' = [wpc EXCEPT ![p] = "FileNotFoundError"]
    /\ UNCHANGED <<fs, log_env, w, gvars>>

WrapperNext ==
    \E p \in Procs :
        \/ \E r \in Invocations(p) : WrapperStart(p, r[1], r[2])
        \/ WrapperOpen(p)
        \/ WrapperOpenFails(p)
        \/ WrapperWriteRecord(p)
        \/ WrapperWriteNewline(p)
        \/ WrapperClose(p)
        \/ WrapperExec(p)
        \/ WrapperExecFails(p)

(***************************************************************************)
(* The Database Generator, cc/gen_compdb.py                                *)
(***************************************************************************)
IsSourceContains(a) == \E k \in 1..(Len(a) - 1) : a[k] = 46 /\ a[k + 1] = 99

\* gen_compdb.py:16
IsSource(a) ==
    \/ endswith(a, Ext_c)
    \/ endswith(a, Ext_cc)
    \/ endswith(a, Ext_cpp)

RECURSIVE ScanArgs(_, _, _, _)
\* gen_compdb.py:14-17: srcs, or the exception that ends the loop (a.endswith
\* needs a str, and so does os.path.join)
ScanArgs(wd, args, k, srcs) ==
    IF k > Len(args) THEN [err |-> "ok", srcs |-> srcs]
    ELSE IF args[k].t # "str" THEN [err |-> "AttributeError", srcs |-> srcs]
    ELSE IF ~IsSource(args[k].v) THEN ScanArgs(wd, args, k + 1, srcs)
    ELSE IF wd.t # "str" THEN [err |-> "TypeError", srcs |-> srcs]
    ELSE ScanArgs(wd, args, k + 1, Append(srcs, join(wd.v, args[k].v)))

PickFirst(srcs) == srcs[1]

\* gen_compdb.py:22: srcs[-1]
PickSrc(srcs) == srcs[Len(srcs)]

\* gen_compdb.py:25: print(f'warning no src {l}')
Print_warning(l) == WarningNoSrc \o l \o NL

\* an exception ends the turn: nothing appended, nothing printed
Raise(e) == [err |-> e, entries |-> <<>>, printed |-> <<>>]

\* gen_compdb.py:18-25
EntryOrWarning(l, wd, args, scan) ==
    IF scan.err # "ok" THEN Raise(scan.err)
    ELSE IF Len(scan.srcs) > 0 THEN
        [err |-> "ok",
         entries |-> << Dict(<< <<K_directory, wd>>,
                                <<K_arguments, List(args)>>,
                                <<K_file, Str(PickSrc(scan.srcs))>> >>) >>,
         printed |-> <<>>]
    ELSE [err |-> "ok", entries |-> <<>>, printed |-> Print_warning(l)]

\* gen_compdb.py:13-17
ScanLine(l, wd, args) == EntryOrWarning(l, wd, args, ScanArgs(wd, args, 1, <<>>))

\* gen_compdb.py:13: list + it['args']
WithArgs(l, wd, rest) ==
    IF rest.t # "list" THEN Raise("TypeError")
    ELSE ScanLine(l, wd, <<Str(cc)>> \o rest.v)

LookupLenient(l, it) ==
    IF ~it.ok \/ it.val.t # "dict" THEN Raise("ok")
    ELSE IF ~HasKey(it.val, K_wd) \/ ~HasKey(it.val, K_args) THEN Raise("ok")
    ELSE WithArgs(l, GetItem(it.val, K_wd), GetItem(it.val, K_args))

\* gen_compdb.py:11-13: a line that is no JSON text, no dict, or lacks a key
Lookup(l, it) ==
    IF ~it.ok THEN Raise(it.err)
    ELSE IF it.val.t # "dict" THEN Raise("TypeError")
    ELSE IF ~HasKey(it.val, K_wd) THEN Raise("KeyError")
    ELSE IF ~HasKey(it.val, K_args) THEN Raise("KeyError")
    ELSE WithArgs(l, GetItem(it.val, K_wd), GetItem(it.val, K_args))

\* gen_compdb.py:11-25, one turn of the loop on the line l: the exception it
\* raises ("ok": none), the entries it appends to db, the text it prints
Line(l) == Lookup(l, loads(l))

\* gen_compdb.py:5: log_file = sys.argv[1], in a new process
GenStart(path) ==
    /\ gpc \in {"start", "done", "fault"}
    /\ gpc' = "read"
    /\ g' = [G0 EXCEPT !.log_file = path]
    /\ stdout' = <<>>
    /\ before' = fs[dst]
    /\ UNCHANGED <<fs, wvars, runs>>

\* gen_compdb.py:7-9: ls = open(log_file).readlines()
GenReadLines ==
    /\ gpc = "read"
    /\ IF fs[g.log_file].exists
       THEN /\ g' = [g EXCEPT !.read = fs[g.log_file].data,
                              !.ls = readlines(fs[g.log_file].data)]
            /\ gpc' = "loop"
       ELSE /\ g' = [g EXCEPT !.err = "FileNotFoundError"]
            /\ gpc' = "fault"
    /\ UNCHANGED <<fs, wvars, stdout, before, runs>>

\* gen_compdb.py:10-25: one turn of the loop
GenLine ==
    /\ gpc = "loop"
    /\ g.i <= Len(g.ls)
    /\ LET r == Line(g.ls[g.i])
       IN IF r.err = "ok"
          THEN /\ g' = [g EXCEPT !.i = @ + 1, !.db = @ \o r.entries]
               /\ stdout' = stdout \o r.printed
               /\ gpc' = "loop"
          ELSE /\ g' = [g EXCEPT !.err = r.err]
               /\ gpc' = "fault"
               /\ UNCHANGED stdout
    /\ UNCHANGED <<fs, wvars, before, runs>>

OpenAppend(f) == File(f.data)

\* open(dst, 'w'): the file is created, or cut to nothing
OpenTruncate(f) == File(<<>>)

\* gen_compdb.py:26: with open(dst, 'w') as f, once the loop has ended
GenOpenDst ==
    /\ gpc = "loop"
    /\ g.i > Len(g.ls)
    /\ fs' = [fs EXCEPT ![dst] = OpenTruncate(@)]
    /\ gpc' = "write"
    /\ UNCHANGED <<g, wvars, stdout, before, runs>>

\* gen_compdb.py:27: f.write(json.dumps(db))
GenWrite ==
    /\ gpc = "write"
    /\ LET r == FileWrite(g.pending, g.buf, dumps(List(g.db)))
       IN /\ fs' = [fs EXCEPT ![dst] = AppendTo(@, r.written)]
          /\ g' = [g EXCEPT !.pending = r.pending, !.buf = r.buf]
    /\ gpc' = "close"
    /\ UNCHANGED <<wvars, stdout, before, runs>>

\* gen_compdb.py:26-27: leaving the with block flushes and closes f; the run
\* is over and is remembered by what it read and what it left in dst
GenClose ==
    /\ gpc = "close"
    /\ fs' = [fs EXCEPT ![dst] = AppendTo(@, FileClose(g.pending, g.buf))]
    /\ g' = [g EXCEPT !.pending = <<>>, !.buf = <<>>]
    /\ gpc' = "done"
    /\ runs' = (IF runs = <<>> THEN <<>> ELSE <<runs[Len(runs)]>>)
               \o <<[log |-> g.read, out |-> fs'[dst].data]>>
    /\ UNCHANGED <<wvars, stdout, before>>

GenNext ==
    \/ \E path \in Paths : GenStart(path)
    \/ GenReadLines
    \/ GenLine
    \/ GenOpenDst
    \/ GenWrite
    \/ GenClose

Next == WrapperNext
Spec == Init /\ [][Next]_vars
GenSpec == GenInit /\ [][GenNext]_vars

(***************************************************************************)
(* Properties                                                              *)
(***************************************************************************)
\* the text process p has put into its log file, read back from the file
WroteText(p) ==
    Concat([k \in 1..Len(w[p].wrote) |->
              SubSeq(fs[w[p].log_file].data, w[p].wrote[k].at + 1,
                     w[p].wrote[k].at + w[p].wrote[k].n)])

Newlines(text) == Cardinality({k \in 1..Len(text) : text[k] = 10})

\* p has left the with block of cc.py
PastLog(p) == wpc[p] \in {"exec", "compiler", "FileNotFoundError"}

\* C1: once a Wrapper whose log file opened is at the exec step or past it,
\* its file handle is closed, nothing is left unwritten, and what it appended
\* to the log is exactly one line: the JSON object {"wd": W, "args": A}
\* followed by a newline.
C1_LineWrittenBeforeExec ==
    \A p \in Procs :
        PastLog(p) =>
            /\ ~w[p].open
            /\ w[p].pending = <<>> /\ w[p].buf = <<>>
            /\ WroteText(p) = dumps(Record(w[p].wd, w[p].args)) \o NL
            /\ Newlines(WroteText(p)) = 1

C1_Witness ==
    \E p \in Procs :
        /\ wpc[p] = "compiler"
        /\ w[p].args = <<A_odd>>
        /\ Len(fs[w[p].log_file].data) > Len(WroteText(p))

\* the chunks p wrote lie one after the other in the file
Adjacent(p) ==
    \A k \in 1..(Len(w[p].wrote) - 1) :
        w[p].wrote[k + 1].at = w[p].wrote[k].at + w[p].wrote[k].n

\* what p wrote starts at the start of a line of the file
StartsLine(p) ==
    \/ w[p].wrote = <<>>
    \/ w[p].wrote[1].at = 0
    \/ fs[w[p].log_file].data[w[p].wrote[1].at] = 10

FitsBuffer(p) == Len(RecordText(w[p].wd, w[p].args)) < ChunkSize

\* C5 as claimed: in every interleaving, the JSON object and the newline of
\* each Wrapper land contiguously and on a line of their own.
C5_AlwaysOneLineEach ==
    \A p \in Procs : PastLog(p) => Adjacent(p) /\ StartsLine(p)

\* The part of C5 that holds: a Wrapper whose JSON text is shorter than
\* ChunkSize appends its object and the newline in one write, so they land
\* contiguously; and as long as every Wrapper that has written had such a
\* record, each one's line starts a line of the log.
C5_ShortLinesLandWhole ==
    /\ \A p \in Procs :
           PastLog(p) /\ FitsBuffer(p) => Len(w[p].wrote) = 1 /\ Adjacent(p)
    /\ (\A q \in Procs : w[q].wrote # <<>> => FitsBuffer(q))
           => \A p \in Procs : PastLog(p) => StartsLine(p)

C5_Witness ==
    \E p, q \in Procs :
        /\ p # q
        /\ wpc[p] = "compiler" /\ wpc[q] = "compiler"
        /\ FitsBuffer(p) /\ FitsBuffer(q)
        /\ Len(RecordText(w[p].wd, w[p].args)) = ChunkSize - 1
        /\ w[q].wrote[1].at < w[p].wrote[1].at

\* C6: a Wrapper whose log file did not open has appended nothing, a Wrapper
\* that became the compiler has appended its line before, and a Wrapper that
\* failed (open or exec) stays failed: it never reaches the compiler.
C6_FailFast ==
    /\ [](\A p \in Procs :
            /\ wpc[p] = "OSError" => w[p].wrote = <<>> /\ ~w[p].open
            /\ wpc[p] = "compiler" =>
                   WroteText(p) = LogLine(w[p].wd, w[p].args))
    /\ [][\A p \in Procs :
            /\ wpc[p] \in {"OSError", "FileNotFoundError"} => wpc'[p] = wpc[p]
            /\ wpc'[p] = "OSError" /\ wpc[p] # "OSError" => fs' = fs
            /\ wpc'[p] = "compiler" => wpc[p] \in {"exec", "compiler"}]_vars

C6_Witness ==
    \E p, q \in Procs :
        /\ wpc[p] = "OSError"
        /\ wpc[q] = "FileNotFoundError"
        /\ fs[w[q].log_file].data = LogLine(w[q].wd, w[q].args)

\* --- the Database Generator ---

\* a.endswith('.c') or a.endswith('.cc') or a.endswith('.cpp'), spelled out
\* character by character ("." is 46, "c" is 99, "p" is 112)
SourceExt(a) ==
    LET n == Len(a)
    IN \/ n >= 2 /\ a[n - 1] = 46 /\ a[n] = 99
       \/ n >= 3 /\ a[n - 2] = 46 /\ a[n - 1] = 99 /\ a[n] = 99
       \/ n >= 4 /\ a[n - 3] = 46 /\ a[n - 2] = 99 /\ a[n - 1] = 112 /\ a[n] = 112

\* the value is a dict with a str under wd and a list of str under args
IsRecordValue(x) ==
    /\ x.ok
    /\ x.val.t = "dict"
    /\ HasKey(x.val, K_wd) /\ HasKey(x.val, K_args)
    /\ GetItem(x.val, K_wd).t = "str"
    /\ GetItem(x.val, K_args).t = "list"
    /\ \A k \in 1..Len(GetItem(x.val, K_args).v) : GetItem(x.val, K_args).v[k].t = "str"

\* the line is the JSON text of such a record
IsRecord(l) == IsRecordValue(loads(l))

WdOf(l) == GetItem(loads(l).val, K_wd).v
Texts(xs) == [k \in 1..Len(xs) |-> xs[k].v]
ArgsOf(l) == Texts(GetItem(loads(l).val, K_args).v)
Sources(args) == {k \in 1..Len(args) : SourceExt(args[k])}
SourcesOf(l) == Sources(ArgsOf(l))
Last(ks) == CHOOSE k \in ks : \A j \in ks : j <= k

Entry(wd, args) ==
    Dict(<< <<K_directory, Str(wd)>>,
            <<K_arguments, StrList(<<cc>> \o args)>>,
            <<K_file, Str(join(wd, args[Last(Sources(args))]))>> >>)

ExpectedEntry(l) == Entry(WdOf(l), ArgsOf(l))

AllWithSource(ls) ==
    \A k \in 1..Len(ls) : IsRecord(ls[k]) /\ SourcesOf(ls[k]) # {}

\* C2: when every one of the N lines of the log is a record with at least
\* one argument ending in .c, .cc or .cpp, a finished run has produced N
\* entries in log order, entry i with directory = wd of record i, arguments =
\* /usr/bin/gcc followed by its args, file = wd joined with its LAST matching
\* argument; and compile_commands.json holds exactly these entries.
C2_OneEntryPerLineLastSource ==
    gpc = "done" /\ AllWithSource(g.ls) =>
        /\ g.db = [k \in 1..Len(g.ls) |-> ExpectedEntry(g.ls[k])]
        /\ fs[dst].data = dumps(List(g.db))

C2_Witness ==
    /\ gpc = "done"
    /\ Len(g.ls) = 2
    /\ AllWithSource(g.ls)
    /\ Cardinality(SourcesOf(g.ls[1])) = 2
    /\ GetItem(g.db[1], K_file).v = T(<<"/", "b", ".", "c", "c">>)
    /\ GetItem(g.db[2], K_file).v = A_abs

\* the lines the loop has been through without an exception
Processed == 1..(g.i - 1)
NoSource(l) == SourcesOf(l) = {}

\* C3 as claimed: every processed line without a recognized source argument
\* has put exactly one line on standard output.
C3_OneWarningLineEach ==
    gpc \in {"loop", "write", "close", "done"} =>
        Len(readlines(stdout)) = Cardinality({k \in Processed : NoSource(g.ls[k])})

MalformedValue(x) ==
    \/ ~x.ok
    \/ x.val.t # "dict"
    \/ ~HasKey(x.val, K_wd)
    \/ ~HasKey(x.val, K_args)

Malformed(l) == MalformedValue(loads(l))

\* C4: a malformed line (no JSON text, no object, or an object without wd or
\* without args) stops the loop at that line, whatever came before it: the
\* run never gets to open compile_commands.json, which stays exactly as it
\* was when the run started; and the file is opened only when every line has
\* been processed.
C4_MalformedLineLeavesDatabase ==
    /\ gpc \in {"loop", "write", "close", "done", "fault"} =>
           \A k \in 1..Len(g.ls) :
               \/ /\ g.i <= k
                  /\ gpc \in {"loop", "fault"}
                  /\ fs[dst] = before
               \/ ~Malformed(g.ls[k])
    /\ gpc = "fault" => fs[dst] = before
    /\ gpc \in {"write", "close", "done"} => g.i = Len(g.ls) + 1

C4_Witness ==
    /\ gpc = "fault"
    /\ g.i = 2 /\ Len(g.ls) = 2
    /\ ~Malformed(g.ls[1]) /\ Malformed(g.ls[2])
    /\ g.db # <<>>
    /\ before = File(T(<<"[", "]">>))
    /\ fs[dst] = before

\* the argument vector of the entry of a line: the compiler, then the args
VectorOf(l) == <<cc>> \o ArgsOf(l)

\* rest, and after it the vector v when it has a source element
KeepVector(rest, v) == IF Sources(v) # {} THEN Append(rest, StrList(v)) ELSE rest

\* the vectors of the lines among the first n of ls that have a source element
RECURSIVE SourceVectors(_, _)
SourceVectors(ls, n) ==
    IF n = 0 THEN <<>> ELSE KeepVector(SourceVectors(ls, n - 1), VectorOf(ls[n]))

\* C7: every entry's file ends in .c, .cc or .cpp, and the entries are, in
\* order, those of exactly the processed lines whose full argument vector
\* has an element with such an ending (m.cpp.bak, m.cxx and m.C are none).
C7_EntryIffSourceExtension ==
    gpc \in {"loop", "write", "close", "done", "fault"} =>
        /\ \A k \in 1..Len(g.db) : SourceExt(GetItem(g.db[k], K_file).v)
        /\ [k \in 1..Len(g.db) |-> GetItem(g.db[k], K_arguments)]
             = SourceVectors(g.ls, g.i - 1)

C7_Witness ==
    /\ gpc = "done"
    /\ Len(g.ls) = 2
    /\ ArgsOf(g.ls[1]) = <<A_bak>>
    /\ ArgsOf(g.ls[2]) = <<A_dash_c, A_cpp, A_dash_o, A_obj>>
    /\ Len(g.db) = 1

\* C8: two runs that read the same log text leave the same text in
\* compile_commands.json.
C8_SameLogSameDatabase ==
    Len(runs) = 2 /\ runs[1].log = runs[2].log => runs[1].out = runs[2].out

C8_Witness ==
    /\ Len(runs) = 2
    /\ runs[1].log = runs[2].log
    /\ runs[2].out = fs[dst].data
    /\ Len(runs[2].out) > 2

\* C9 as claimed: an empty line of the log does not end the run.
C9_BlankLineDoesNotAbort ==
    ~(gpc = "fault" /\ g.i <= Len(g.ls) /\ g.ls[g.i] = NL)

IsPrefix(a, b) == Len(a) <= Len(b) /\ SubSeq(b, 1, Len(a)) = a

\* C10 as claimed: no step shortens or rewrites a file that is being used as
\* the log: a Wrapper step only extends its log file, and a step of a
\* Database Generator run leaves the file it was given as the log unchanged.
C10_LogOnlyGrows ==
    [][/\ \A p \in Procs :
             wpc[p] # "start" =>
                 IsPrefix(fs[w[p].log_file].data, fs'[w[p].log_file].data)
       /\ gpc \in {"read", "loop", "write", "close"} =>
             fs'[g.log_file] = fs[g.log_file]]_vars

====
